---- MODULE Spec2Model ----
(***************************************************************************)
(* dmenu-manager: the menu of src/main.rs.  run() builds the tagged entry  *)
(* stream (construct_entries), hands it to the selector (run_dmenu),       *)
(* resolves the selector's output to commands (get_command_choice) and     *)
(* spawns them (run_command).                                              *)
(*                                                                         *)
(* Text is a sequence of one-character strings.  The modules `tag` and     *)
(* `config` that main.rs declares (lines 16-17) are not among the sources; *)
(* the Tag codec, the family's default separator and Separator::custom_or  *)
(* are written from the specification's sections 3 and 4.1.  main.rs calls  *)
(* T::new(i) and T::find(choice); section 4.1 makes both depend on the     *)
(* entry count of the run, which the codec operators here take as their    *)
(* parameter n.  config.shell and config.dmenu only name the programs      *)
(* spawned and are left out.                                               *)
(***************************************************************************)
EXTENDS Integers, Sequences, FiniteSets, TLC

\* ------------------------------------------------------------------ bounds
\* Largest entry list of the menu model.
MaxEntries == 2
\* Most lines in one selector output of the menu model.
MaxLines == 2
\* Largest entry count of the codec model.
MaxCount == 12
\* Pipe model: largest stream, largest selector output, largest pipe capacity.
MaxStream == 3
MaxOutput == 2
MaxPipe == 2

\* ------------------------------------------------------------ Option<T>
None == <<>>
Some(v) == <<v>>
IsSome(o) == o # <<>>
Unwrap(o) == o[1]

\* ------------------------------------------------------------------ text
NL == "\n"
Whitespace == {" ", NL}

RECURSIVE TrimStart(_)
\* str::trim_start: drop leading whitespace.
TrimStart(s) ==
    IF s # <<>> /\ Head(s) \in Whitespace THEN TrimStart(Tail(s)) ELSE s

RECURSIVE TrimEnd(_)
\* str::trim_end: drop trailing whitespace.
TrimEnd(s) ==
    IF s # <<>> /\ s[Len(s)] \in Whitespace
    THEN TrimEnd(SubSeq(s, 1, Len(s) - 1))
    ELSE s

\* str::trim.
Trim(s) == TrimEnd(TrimStart(s))

RECURSIVE SplitFrom(_, _)
\* The pieces of s between line terminators, cur being the piece under way.
SplitFrom(s, cur) ==
    IF s = <<>> THEN <<cur>>
    ELSE IF Head(s) = NL THEN <<cur>> \o SplitFrom(Tail(s), <<>>)
    ELSE SplitFrom(Tail(s), Append(cur, Head(s)))

\* str::split('\n'): always at least one piece, possibly empty.
Split(s) == SplitFrom(s, <<>>)

\* s is a strict prefix of t.
StrictPrefix(s, t) == Len(s) < Len(t) /\ SubSeq(t, 1, Len(s)) = s

\* ------------------------------------------------------------- Tag codec
Families == {"Decimal", "Ternary"}
DigitChars == <<"0", "1", "2", "3", "4", "5", "6", "7", "8", "9">>
DigitSet == {DigitChars[k] : k \in 1..Len(DigitChars)}
\* The three symbols of the Ternary family, for the digits 0, 1, 2.
TernarySymbols == <<"j", "k", "l">>
TernarySet == {TernarySymbols[k] : k \in 1..Len(TernarySymbols)}

\* The digit a character of the alphabet `chars` stands for.
CharValue(chars, c) == (CHOOSE k \in 1..Len(chars) : chars[k] = c) - 1

RECURSIVE LeadingRun(_, _)
\* The maximal run of characters of `set` at the start of s.
LeadingRun(s, set) ==
    IF s # <<>> /\ Head(s) \in set
    THEN <<Head(s)>> \o LeadingRun(Tail(s), set)
    ELSE <<>>

RECURSIVE ParseDigits(_, _, _)
\* The number a digit string of the alphabet `chars` denotes in base Len(chars).
ParseDigits(chars, s, acc) ==
    IF s = <<>> THEN acc
    ELSE ParseDigits(chars, Tail(s), acc * Len(chars) + CharValue(chars, Head(s)))

RECURSIVE ToDecimal(_)
\* Decimal encode: the base-10 digits of i, no leading zeros, no padding.
ToDecimal(i) ==
    IF i < 10 THEN <<DigitChars[i + 1]>>
    ELSE ToDecimal(i \div 10) \o <<DigitChars[(i % 10) + 1]>>

RECURSIVE TernaryWidth(_)
\* The least w with 3^w >= n: the fixed width of the Ternary tags of n entries.
TernaryWidth(n) == IF n <= 1 THEN 0 ELSE 1 + TernaryWidth((n + 2) \div 3)

RECURSIVE ToTernary(_, _)
\* The w low base-3 digits of i, most significant first.
ToTernary(i, w) ==
    IF w = 0 THEN <<>>
    ELSE ToTernary(i \div 3, w - 1) \o <<TernarySymbols[(i % 3) + 1]>>

\* Decimal decode: the maximal leading digit run, accepted if it is < n.
DecimalFind(n, text) ==
    LET run == LeadingRun(text, DigitSet)
        value == ParseDigits(DigitChars, run, 0)
    IN  IF run # <<>> /\ value < n THEN Some(value) ELSE None

\* Ternary decode: exactly the fixed number of leading symbols, accepted if
\* all of them are symbols of the alphabet and the value is < n.
TernaryFind(n, text) ==
    LET w == TernaryWidth(n)
        lead == SubSeq(text, 1, w)
        value == ParseDigits(TernarySymbols, lead, 0)
    IN  IF Len(text) >= w /\ (\A k \in 1..w : text[k] \in TernarySet) /\ value < n
        THEN Some(value)
        ELSE None

\* T::new(i).as_str() for a run of n entries.
TagNew(T, n, i) == IF T = "Decimal" THEN ToDecimal(i) ELSE ToTernary(i, TernaryWidth(n))

\* T::find(text) for a run of n entries: Some(index) or None.
TagFind(T, n, text) == IF T = "Decimal" THEN DecimalFind(n, text) ELSE TernaryFind(n, text)

\* ------------------------------------------------------------------ Menu
OptBool == {None, Some(TRUE), Some(FALSE)}
\* Option::unwrap_or.
UnwrapOr(o, d) == IF IsSome(o) THEN Unwrap(o) ELSE d

\* config.separator: absent, an explicit "no separator", or a custom text.
SeparatorNone == [kind |-> "none", text |-> <<>>]
SeparatorCustom(s) == [kind |-> "custom", text |-> s]
CustomTexts == {<<"-">>}
SeparatorConfigs ==
    {None, Some(SeparatorNone)} \cup {Some(SeparatorCustom(s)) : s \in CustomTexts}

\* Separator::custom_or(def): the custom text, or nothing for "no separator".
custom_or(sep, def) == IF sep.kind = "custom" THEN Some(sep.text) ELSE None

\* What T::separator() can return: a family declares a default, or none.
FamilySeparators == {None, Some(<<" ">>)}

Names == {<<"x">>, <<"1">>}
\* The command of the entry at index i; every entry has its own.
RunOf(i) == <<"r", DigitChars[i + 1]>>
EntryLists ==
    UNION {{[k \in 1..n |-> [name |-> f[k], run |-> RunOf(k - 1)]] : f \in [1..n -> Names]}
           : n \in 1..MaxEntries}
Configs ==
    [numbered : OptBool, ad_hoc : OptBool, separator : SeparatorConfigs]
Menus == [entries : EntryLists, config : Configs]

VARIABLES
    menu,           \* Menu: entries and config, after Menu::try_new
    tag_separator,  \* T::separator() of the families of this build
    pc,             \* where run() is
    stream,         \* `entries`, the text construct_entries built
    raw_choice,     \* the selector's output
    commands,       \* the resolved commands
    spawned,        \* the commands run_command has spawned, in order
    error           \* the error run() returned, "" if none

menu_vars == <<menu, tag_separator, pc, stream, raw_choice, commands, spawned, error>>

\* run(), lines 160-165: the Tag family the numbered flag selects.
Family(m) == IF UnwrapOr(m.config.numbered, FALSE) THEN "Decimal" ELSE "Ternary"

\* The override consulted before the family: a custom separator always wins.
ResolveSeparatorOverrideFirst(tsep, m) ==
    IF IsSome(m.config.separator)
    THEN custom_or(Unwrap(m.config.separator), tsep)
    ELSE tsep

\* construct_entries, lines 93-98: the separator put between tag and name.
ResolveSeparator(tsep, m) ==
    IF IsSome(tsep)
    THEN IF IsSome(m.config.separator)
         THEN custom_or(Unwrap(m.config.separator), Unwrap(tsep))
         ELSE Some(Unwrap(tsep))
    ELSE None

\* The tag numbered from one: enumerate()'s index shifted.
EntryTagOneBased(T, n, i) == TagNew(T, n, i + 1)

\* The tag sized by its own index, not by the entry count of the run.
EntryTagByValue(T, n, i) == TagNew(T, i + 1, i)

\* construct_entries, lines 100-101: the tag pushed for the entry that
\* enumerate() numbers i, of n entries.
EntryTag(T, n, i) == TagNew(T, n, i)

\* construct_entries, lines 101-106: the line of the entry at index i.
EntryLine(T, n, i, separator, entry) ==
    EntryTag(T, n, i)
        \o (IF IsSome(separator) THEN Unwrap(separator) ELSE <<>>)
        \o entry.name \o <<NL>>

RECURSIVE EntryLinesFrom(_, _, _, _)
\* construct_entries, lines 100-107: the lines of the entries from index i on.
EntryLinesFrom(T, m, separator, i) ==
    IF i >= Len(m.entries) THEN <<>>
    ELSE EntryLine(T, Len(m.entries), i, separator, m.entries[i + 1])
             \o EntryLinesFrom(T, m, separator, i + 1)

construct_entries(T, m, tsep) == EntryLinesFrom(T, m, ResolveSeparator(tsep, m), 0)

\* The lines of the output with the filter on empty choices left out.
ChoicesUnfiltered(raw) ==
    LET pieces == Split(Trim(raw))
    IN  [k \in 1..Len(pieces) |-> Trim(pieces[k])]

\* get_command_choice, lines 120-121: the trimmed, non-empty lines of the output.
Choices(raw) ==
    LET pieces == Split(Trim(raw))
        trimmed == [k \in 1..Len(pieces) |-> Trim(pieces[k])]
        NonEmpty(c) == c # <<>>
    IN  SelectSeq(trimmed, NonEmpty)

\* The index taken as one-based.
EntryAtOneBased(entries, id) ==
    IF id + 1 < Len(entries) THEN Some(entries[id + 2]) ELSE None

\* menu.entries[id], line 126: None stands for the index-out-of-bounds panic.
EntryAt(entries, id) == IF id < Len(entries) THEN Some(entries[id + 1]) ELSE None

\* get_command_choice, line 122: the tag found in a choice, of n entries.
ChoiceTag(T, n, choice) == TagFind(T, n, choice)

\* ad_hoc defaulting to true when the configuration leaves it out.
ResolveChoiceAdHocDefault(T, m, choice) ==
    LET tag == TagFind(T, Len(m.entries), choice)
    IN  IF IsSome(tag)
        THEN LET entry == EntryAt(m.entries, Unwrap(tag))
             IN  IF IsSome(entry)
                 THEN [kind |-> "ok", command |-> Unwrap(entry).run]
                 ELSE [kind |-> "panic", command |-> <<>>]
        ELSE IF UnwrapOr(m.config.ad_hoc, TRUE)
             THEN [kind |-> "ok", command |-> choice]
             ELSE [kind |-> "InvalidChoice", command |-> <<>>]

\* get_command_choice, lines 122-134: one choice to its command.
ResolveChoice(T, m, choice) ==
    LET tag == ChoiceTag(T, Len(m.entries), choice)
    IN  IF IsSome(tag)
        THEN LET entry == EntryAt(m.entries, Unwrap(tag))
             IN  IF IsSome(entry)
                 THEN [kind |-> "ok", command |-> Unwrap(entry).run]
                 ELSE [kind |-> "panic", command |-> <<>>]
        ELSE IF UnwrapOr(m.config.ad_hoc, FALSE)
             THEN [kind |-> "ok", command |-> choice]
             ELSE [kind |-> "InvalidChoice", command |-> <<>>]

RECURSIVE CollectFrom(_, _, _, _, _)
RECURSIVE CollectPartial(_, _, _, _, _)
\* The choices that resolve, the others skipped.
CollectPartial(T, m, choices, k, acc) ==
    IF k > Len(choices) THEN [kind |-> "ok", commands |-> acc]
    ELSE LET r == ResolveChoice(T, m, choices[k])
         IN  CollectPartial(T, m, choices, k + 1,
                            IF r.kind = "ok" THEN Append(acc, r.command) ELSE acc)

\* collect::<Result<Vec<_>, _>>(), line 135: in order, stopping at the first
\* choice that does not resolve; nothing of the list is kept then.
CollectFrom(T, m, choices, k, acc) ==
    IF k > Len(choices) THEN [kind |-> "ok", commands |-> acc]
    ELSE LET r == ResolveChoice(T, m, choices[k])
         IN  IF r.kind = "ok"
             THEN CollectFrom(T, m, choices, k + 1, Append(acc, r.command))
             ELSE [kind |-> r.kind, commands |-> <<>>]

\* get_command_choice, lines 119-138, on the selector's output.
ResolveChoices(T, m, raw) == CollectFrom(T, m, Choices(raw), 1, <<>>)

\* The lines a selector can echo: the stream's own, and text typed freely.
TypedLines == {<<" ">>, <<"9">>, <<" ", "x">>}
StreamLines(text) == {l \in {Split(text)[k] : k \in 1..Len(Split(text))} : l # <<>>}
RECURSIVE JoinLines(_)
JoinLines(ls) == IF ls = <<>> THEN <<>> ELSE Head(ls) \o <<NL>> \o JoinLines(Tail(ls))
SelectorOutputs(text) ==
    LET lines == StreamLines(text) \cup TypedLines
    IN  {JoinLines(ls) : ls \in UNION {[1..n -> lines] : n \in 0..MaxLines}}

\* ----------------------------------------------------------------- codec
\* One tag on its way through the program: pushed into the stream by
\* construct_entries, found again in a choice by get_command_choice.
VARIABLES
    c_family,   \* the Tag family T
    c_n,        \* menu.entries.len()
    c_i,        \* the index enumerate() gives the entry
    c_text,     \* T::new(i).as_str(), as pushed into the stream
    c_found,    \* T::find of that text
    c_pc

codec_vars == <<c_family, c_n, c_i, c_text, c_found, c_pc>>

\* ------------------------------------------------------------- run_dmenu
\* The writer thread, the selector process and the main thread of run_dmenu,
\* lines 59-85, over pipes of bounded capacity; bytes are counted, not kept.
VARIABLES
    cap_in,     \* capacity of the selector's stdin pipe
    cap_out,    \* capacity of its stdout pipe and of its stderr pipe
    w_left,     \* bytes of `entries` write_all has still to write
    w_pc,       \* writer thread: "writing", then "finished" (stdin dropped)
    in_pipe,    \* bytes in the stdin pipe
    sel_op,     \* the selector: "choose", a blocking call, or "exited"
    sel_eof,    \* the selector has read end-of-file
    out_left,   \* bytes the selector has still to write to stdout
    err_left,   \* bytes the selector has still to write to stderr
    out_pipe,   \* bytes in the stdout pipe
    err_pipe,   \* bytes in the stderr pipe
    captured,   \* bytes of stdout wait_with_output has collected
    m_pc        \* main thread

pipe_vars ==
    <<cap_in, cap_out, w_left, w_pc, in_pipe, sel_op, sel_eof, out_left, err_left,
      out_pipe, err_pipe, captured, m_pc>>

vars == <<menu_vars, codec_vars, pipe_vars>>

\* ------------------------------------------------------------------ run()
MenuInit ==
    /\ menu \in Menus
    /\ tag_separator \in FamilySeparators
    /\ pc = "start"
    /\ stream = <<>>
    /\ raw_choice = <<>>
    /\ commands = <<>>
    /\ spawned = <<>>
    /\ error = ""

\* get_command_choice, lines 112-117.
Construct ==
    /\ pc = "start"
    /\ stream' = construct_entries(Family(menu), menu, tag_separator)
    /\ pc' = "constructed"
    /\ UNCHANGED <<menu, tag_separator, raw_choice, commands, spawned, error,
                   codec_vars, pipe_vars>>

\* run_dmenu returns the selector's output, line 118.
DmenuReturns ==
    /\ pc = "constructed"
    /\ \E out \in SelectorOutputs(stream) : raw_choice' = out
    /\ pc' = "chosen"
    /\ UNCHANGED <<menu, tag_separator, stream, commands, spawned, error,
                   codec_vars, pipe_vars>>

\* run_dmenu fails (spawn, pipe, write or encoding error), line 118.
DmenuFails ==
    /\ pc = "constructed"
    /\ pc' = "failed"
    /\ error' = "dmenu"
    /\ UNCHANGED <<menu, tag_separator, stream, raw_choice, commands, spawned,
                   codec_vars, pipe_vars>>

\* get_command_choice, lines 119-138, and the `?` of run(), lines 161-165.
Resolve ==
    /\ pc = "chosen"
    /\ LET r == ResolveChoices(Family(menu), menu, raw_choice)
       IN  /\ commands' = r.commands
           /\ pc' = IF r.kind = "ok" THEN "resolved"
                    ELSE IF r.kind = "panic" THEN "panicked" ELSE "failed"
           /\ error' = IF r.kind = "ok" THEN "" ELSE r.kind
    /\ UNCHANGED <<menu, tag_separator, stream, raw_choice, spawned,
                   codec_vars, pipe_vars>>

\* run_command, lines 142-148: the next command is spawned.
Spawn ==
    /\ pc = "resolved"
    /\ Len(spawned) < Len(commands)
    /\ spawned' = Append(spawned, commands[Len(spawned) + 1])
    /\ UNCHANGED <<menu, tag_separator, pc, stream, raw_choice, commands, error,
                   codec_vars, pipe_vars>>

\* run_command, lines 146-147: spawning the next command fails.
SpawnFails ==
    /\ pc = "resolved"
    /\ Len(spawned) < Len(commands)
    /\ pc' = "failed"
    /\ error' = "spawn"
    /\ UNCHANGED <<menu, tag_separator, stream, raw_choice, commands, spawned,
                   codec_vars, pipe_vars>>

\* run_command and run() return Ok, lines 149 and 168.
Finish ==
    /\ pc = "resolved"
    /\ Len(spawned) = Len(commands)
    /\ pc' = "done"
    /\ UNCHANGED <<menu, tag_separator, stream, raw_choice, commands, spawned, error,
                   codec_vars, pipe_vars>>

MenuNext ==
    \/ Construct
    \/ DmenuReturns
    \/ DmenuFails
    \/ Resolve
    \/ Spawn
    \/ SpawnFails
    \/ Finish

\* ------------------------------------------------- one tag, out and back
CodecInit ==
    /\ c_family \in Families
    /\ c_n \in 1..MaxCount
    /\ c_i \in 0..(c_n - 1)
    /\ c_text = <<>>
    /\ c_found = None
    /\ c_pc = "start"

\* construct_entries, line 101.
PushTag ==
    /\ c_pc = "start"
    /\ c_text' = EntryTag(c_family, c_n, c_i)
    /\ c_pc' = "pushed"
    /\ UNCHANGED <<c_family, c_n, c_i, c_found,
                   menu_vars, pipe_vars>>

\* get_command_choice, lines 121-122, on the tag text the selector echoes.
FindTag ==
    /\ c_pc = "pushed"
    /\ c_found' = ChoiceTag(c_family, c_n, Trim(c_text))
    /\ c_pc' = "found"
    /\ UNCHANGED <<c_family, c_n, c_i, c_text,
                   menu_vars, pipe_vars>>

CodecNext ==
    \/ PushTag
    \/ FindTag

\* ---------------------------------------------------- run_dmenu, running
\* After thread::spawn, line 71: the writer runs, the main thread is about to
\* call wait_with_output.
PipeInit ==
    /\ cap_in \in 1..MaxPipe
    /\ cap_out \in 1..MaxPipe
    /\ w_left \in 0..MaxStream
    /\ w_pc = "writing"
    /\ in_pipe = 0
    /\ sel_op = "choose"
    /\ sel_eof = FALSE
    /\ out_left \in 0..MaxOutput
    /\ err_left \in 0..MaxOutput
    /\ out_pipe = 0
    /\ err_pipe = 0
    /\ captured = 0
    /\ m_pc = "wait_with_output"

\* write_all, lines 72-73: one more byte fits into the pipe.
WriterWrite ==
    /\ w_pc = "writing"
    /\ w_left > 0
    /\ in_pipe < cap_in
    /\ w_left' = w_left - 1
    /\ in_pipe' = in_pipe + 1
    /\ UNCHANGED <<cap_in, cap_out, w_pc, sel_op, sel_eof, out_left, err_left,
                   out_pipe, err_pipe, captured, m_pc,
                   menu_vars, codec_vars>>

\* The closure returns, lines 74-75: `stdin` is dropped, the pipe is closed.
WriterFinish ==
    /\ w_pc = "writing"
    /\ w_left = 0
    /\ w_pc' = "finished"
    /\ UNCHANGED <<cap_in, cap_out, w_left, in_pipe, sel_op, sel_eof, out_left,
                   err_left, out_pipe, err_pipe, captured, m_pc,
                   menu_vars, codec_vars>>

\* The selector enters a blocking call: a read, or a write it has left.
SelectorCall ==
    /\ sel_op = "choose"
    /\ \E op \in {"read", "write_out", "write_err"} :
          /\ op = "read" => ~sel_eof
          /\ op = "write_out" => out_left > 0
          /\ op = "write_err" => err_left > 0
          /\ sel_op' = op
    /\ UNCHANGED <<cap_in, cap_out, w_left, w_pc, in_pipe, sel_eof, out_left,
                   err_left, out_pipe, err_pipe, captured, m_pc,
                   menu_vars, codec_vars>>

\* Its read returns a byte, or end-of-file once the writer has closed the pipe.
SelectorRead ==
    /\ sel_op = "read"
    /\ IF in_pipe > 0
       THEN in_pipe' = in_pipe - 1 /\ sel_eof' = sel_eof
       ELSE w_pc = "finished" /\ sel_eof' = TRUE /\ in_pipe' = in_pipe
    /\ sel_op' = "choose"
    /\ UNCHANGED <<cap_in, cap_out, w_left, w_pc, out_left, err_left, out_pipe,
                   err_pipe, captured, m_pc,
                   menu_vars, codec_vars>>

\* Its write to stdout goes through once the pipe has room.
SelectorWriteOut ==
    /\ sel_op = "write_out"
    /\ out_pipe < cap_out
    /\ out_pipe' = out_pipe + 1
    /\ out_left' = out_left - 1
    /\ sel_op' = "choose"
    /\ UNCHANGED <<cap_in, cap_out, w_left, w_pc, in_pipe, sel_eof, err_left,
                   err_pipe, captured, m_pc,
                   menu_vars, codec_vars>>

\* Its write to stderr goes through once the pipe has room.
SelectorWriteErr ==
    /\ sel_op = "write_err"
    /\ err_pipe < cap_out
    /\ err_pipe' = err_pipe + 1
    /\ err_left' = err_left - 1
    /\ sel_op' = "choose"
    /\ UNCHANGED <<cap_in, cap_out, w_left, w_pc, in_pipe, sel_eof, out_left,
                   out_pipe, captured, m_pc,
                   menu_vars, codec_vars>>

\* It exits, having consumed its input and written its output.
SelectorExit ==
    /\ sel_op = "choose"
    /\ sel_eof
    /\ out_left = 0
    /\ err_left = 0
    /\ sel_op' = "exited"
    /\ UNCHANGED <<cap_in, cap_out, w_left, w_pc, in_pipe, sel_eof, out_left,
                   err_left, out_pipe, err_pipe, captured, m_pc,
                   menu_vars, codec_vars>>

\* stdout drained only once the writer thread has been joined.
MainReadStdoutAfterJoin ==
    /\ m_pc = "wait_with_output"
    /\ w_pc = "finished"
    /\ out_pipe > 0
    /\ out_pipe' = out_pipe - 1
    /\ captured' = captured + 1
    /\ UNCHANGED <<cap_in, cap_out, w_left, w_pc, in_pipe, sel_op, sel_eof,
                   out_left, err_left, err_pipe, m_pc,
                   menu_vars, codec_vars>>

\* wait_with_output, lines 76-77: a byte of stdout is collected.
MainReadStdout ==
    /\ m_pc = "wait_with_output"
    /\ out_pipe > 0
    /\ out_pipe' = out_pipe - 1
    /\ captured' = captured + 1
    /\ UNCHANGED <<cap_in, cap_out, w_left, w_pc, in_pipe, sel_op, sel_eof,
                   out_left, err_left, err_pipe, m_pc,
                   menu_vars, codec_vars>>

\* wait_with_output, lines 76-77: a byte of stderr is collected.
MainReadStderr ==
    /\ m_pc = "wait_with_output"
    /\ err_pipe > 0
    /\ err_pipe' = err_pipe - 1
    /\ UNCHANGED <<cap_in, cap_out, w_left, w_pc, in_pipe, sel_op, sel_eof,
                   out_left, err_left, out_pipe, captured, m_pc,
                   menu_vars, codec_vars>>

\* wait_with_output returns, lines 76-78: both pipes are at end-of-file and
\* the selector has exited.
MainWaited ==
    /\ m_pc = "wait_with_output"
    /\ sel_op = "exited"
    /\ out_pipe = 0
    /\ err_pipe = 0
    /\ m_pc' = "join"
    /\ UNCHANGED <<cap_in, cap_out, w_left, w_pc, in_pipe, sel_op, sel_eof,
                   out_left, err_left, out_pipe, err_pipe, captured,
                   menu_vars, codec_vars>>

\* thread.join() returns, lines 79-84, and run_dmenu with it.
MainJoined ==
    /\ m_pc = "join"
    /\ w_pc = "finished"
    /\ m_pc' = "returned"
    /\ UNCHANGED <<cap_in, cap_out, w_left, w_pc, in_pipe, sel_op, sel_eof,
                   out_left, err_left, out_pipe, err_pipe, captured,
                   menu_vars, codec_vars>>

\* get_command_choice goes on to resolve raw_choice, lines 118-120.
StartResolution ==
    /\ m_pc = "returned"
    /\ m_pc' = "resolving"
    /\ UNCHANGED <<cap_in, cap_out, w_left, w_pc, in_pipe, sel_op, sel_eof,
                   out_left, err_left, out_pipe, err_pipe, captured,
                   menu_vars, codec_vars>>

Writer == WriterWrite \/ WriterFinish
Selector ==
    SelectorCall \/ SelectorRead \/ SelectorWriteOut \/ SelectorWriteErr \/ SelectorExit
Main == MainReadStdout \/ MainReadStderr \/ MainWaited \/ MainJoined \/ StartResolution

PipeNext ==
    \/ WriterWrite
    \/ WriterFinish
    \/ SelectorCall
    \/ SelectorRead
    \/ SelectorWriteOut
    \/ SelectorWriteErr
    \/ SelectorExit
    \/ MainReadStdout
    \/ MainReadStderr
    \/ MainWaited
    \/ MainJoined
    \/ StartResolution

\* -------------------------------------------------------- specifications
MenuIdle ==
    /\ menu = <<>>
    /\ tag_separator = None
    /\ pc = "idle"
    /\ stream = <<>>
    /\ raw_choice = <<>>
    /\ commands = <<>>
    /\ spawned = <<>>
    /\ error = ""

CodecIdle ==
    /\ c_family = "Decimal"
    /\ c_n = 0
    /\ c_i = 0
    /\ c_text = <<>>
    /\ c_found = None
    /\ c_pc = "idle"

PipeIdle ==
    /\ cap_in = 0
    /\ cap_out = 0
    /\ w_left = 0
    /\ w_pc = "idle"
    /\ in_pipe = 0
    /\ sel_op = "idle"
    /\ sel_eof = FALSE
    /\ out_left = 0
    /\ err_left = 0
    /\ out_pipe = 0
    /\ err_pipe = 0
    /\ captured = 0
    /\ m_pc = "idle"

\* run() on a menu, the selector being any source of output lines.
Init == MenuInit /\ CodecIdle /\ PipeIdle
Next == MenuNext
Spec == Init /\ [][Next]_vars

\* One tag from construct_entries to get_command_choice.
CodecStart == MenuIdle /\ CodecInit /\ PipeIdle
CodecSpec == CodecStart /\ [][CodecNext]_vars

\* run_dmenu; the scheduler lets every thread and the selector run.
PipeStart == MenuIdle /\ CodecIdle /\ PipeInit
PipeSpec ==
    /\ PipeStart
    /\ [][PipeNext]_vars
    /\ WF_vars(Writer)
    /\ WF_vars(Selector)
    /\ WF_vars(Main)

\* ---------------------------------------------------------------- claims
\* run() is past the resolution of get_command_choice, lines 119-138.
AfterResolve ==
    \/ pc \in {"resolved", "done", "panicked"}
    \/ pc = "failed" /\ error # "dmenu"

EntryCount == Len(menu.entries)

\* The selector's lines that are not blank, each as the selector wrote it.
NonBlankLines(raw) ==
    LET NotBlank(l) == \E k \in 1..Len(l) : l[k] \notin Whitespace
    IN  SelectSeq(Split(raw), NotBlank)

\* The tag characters leading a trimmed line denote a number >= n.
OutOfRange(T, n, line) ==
    IF T = "Decimal"
    THEN /\ line # <<>> /\ Head(line) \in DigitSet
         /\ ParseDigits(DigitChars, LeadingRun(line, DigitSet), 0) >= n
    ELSE /\ Len(line) >= TernaryWidth(n)
         /\ \A k \in 1..TernaryWidth(n) : line[k] \in TernarySet
         /\ ParseDigits(TernarySymbols, SubSeq(line, 1, TernaryWidth(n)), 0) >= n

\* C1: for every entry count n >= 1, every index i < n and both families,
\* finding the tag in the text pushed for index i gives a tag of value i.
C1_TagRoundTrip ==
    c_pc = "found" => (IsSome(c_found) /\ Unwrap(c_found) = c_i)

C1_Witness ==
    /\ c_pc = "found"
    /\ c_family = "Decimal"
    /\ c_i >= 10
    /\ c_text = <<"1", DigitChars[c_i - 9]>>
    /\ c_found = Some(c_i)

C3_AllOrNothing ==
    (/\ AfterResolve
     /\ ~UnwrapOr(menu.config.ad_hoc, FALSE)
     /\ \E k \in 1..Len(NonBlankLines(raw_choice)) :
           ~IsSome(TagFind(Family(menu), EntryCount, Trim(NonBlankLines(raw_choice)[k]))))
    => (pc = "failed" /\ error = "InvalidChoice" /\ commands = <<>> /\ spawned = <<>>)

C3_Witness ==
    /\ pc = "failed"
    /\ error = "InvalidChoice"
    /\ spawned = <<>>
    /\ Len(NonBlankLines(raw_choice)) = 2
    /\ IsSome(TagFind(Family(menu), EntryCount, Trim(NonBlankLines(raw_choice)[1])))
    /\ ~IsSome(TagFind(Family(menu), EntryCount, Trim(NonBlankLines(raw_choice)[2])))

\* C4: a line without a valid tag fails the resolution with InvalidChoice when
\* ad_hoc is false or absent, and resolves to itself, trimmed, when it is true.
C4_AdHocGating ==
    AfterResolve =>
        LET lines == NonBlankLines(raw_choice)
        IN  \A k \in 1..Len(lines) :
               ~IsSome(TagFind(Family(menu), EntryCount, Trim(lines[k]))) =>
                   IF menu.config.ad_hoc = Some(TRUE)
                   THEN /\ error # "InvalidChoice"
                        /\ Len(commands) = Len(lines)
                        /\ commands[k] = Trim(lines[k])
                   ELSE pc = "failed" /\ error = "InvalidChoice"

C4_Witness ==
    /\ pc = "resolved"
    /\ menu.config.ad_hoc = Some(TRUE)
    /\ raw_choice = <<" ", "x", NL>>
    /\ commands = << <<"x">> >>

\* C5: the k-th line of the stream is the line of entry k, and when the selector
\* returns that line unchanged the resolver returns exactly [run of entry k].
C5_SelectionRoundTrip ==
    pc \notin {"idle", "start"} =>
        \A k \in 1..EntryCount :
            /\ Split(stream)[k] \o <<NL>> =
                   EntryLine(Family(menu), EntryCount, k - 1,
                             ResolveSeparator(tag_separator, menu), menu.entries[k])
            /\ (AfterResolve /\ raw_choice = Split(stream)[k] \o <<NL>>) =>
                   (error # "InvalidChoice" /\ commands = <<menu.entries[k].run>>)

ClaimedSeparator(tsep, m) ==
    IF IsSome(m.config.separator)
    THEN IF Unwrap(m.config.separator).kind = "custom"
         THEN Some(Unwrap(m.config.separator).text)
         ELSE None
    ELSE tsep

AmendedSeparator(tsep, m) ==
    IF ~IsSome(tsep) THEN None
    ELSE IF ~IsSome(m.config.separator) THEN tsep
    ELSE IF Unwrap(m.config.separator).kind = "custom"
         THEN Some(Unwrap(m.config.separator).text)
         ELSE None

\* The stream with `separator` between every tag and name.
StreamWith(separator) ==
    LET Line(k) == EntryTag(Family(menu), EntryCount, k - 1)
                       \o (IF IsSome(separator) THEN Unwrap(separator) ELSE <<>>)
                       \o menu.entries[k].name
    IN  JoinLines([k \in 1..EntryCount |-> Line(k)])

\* C8, as stated: a custom separator is used whenever one is configured,
\* whatever the family declares; "no separator" gives none; without an
\* override the family's default is used, and nothing if it declares none.
C8_SeparatorPrecedence_Stated ==
    pc \notin {"idle", "start"} => stream = StreamWith(ClaimedSeparator(tag_separator, menu))

\* C8, amended: a family that declares no separator gets none, whatever the
\* configuration; a family that declares one gets the custom separator if one
\* is configured, nothing for "no separator", and its default otherwise.
C8_SeparatorPrecedence ==
    pc \notin {"idle", "start"} => stream = StreamWith(AmendedSeparator(tag_separator, menu))

C8_Witness ==
    /\ pc = "constructed"
    /\ ~IsSome(tag_separator)
    /\ menu.config.separator = Some(SeparatorCustom(<<"-">>))
    /\ \A k \in 1..Len(stream) : stream[k] # "-"

\* C9: a successful resolution returns one command per line that is not blank,
\* in the selector's order; blank lines give neither a command nor an error.
C9_OrderAndBlankLines ==
    LET lines == NonBlankLines(raw_choice)
    IN  /\ (AfterResolve /\ lines = <<>>) => (commands = <<>> /\ error # "InvalidChoice")
        /\ (AfterResolve /\ error # "InvalidChoice" /\ pc # "panicked") =>
               /\ Len(commands) = Len(lines)
               /\ \A k \in 1..Len(lines) :
                     LET tag == TagFind(Family(menu), EntryCount, Trim(lines[k]))
                     IN  commands[k] = IF IsSome(tag)
                                       THEN menu.entries[Unwrap(tag) + 1].run
                                       ELSE Trim(lines[k])

C9_Witness ==
    /\ pc = "done"
    /\ EntryCount = 2
    /\ Len(Split(raw_choice)) = 3
    /\ commands = <<menu.entries[2].run, menu.entries[1].run>>
    /\ spawned = commands

\* The writer waits for room in the stdin pipe; the selector waits for room
\* in the stdout pipe.
WriterBlocked == w_pc = "writing" /\ w_left > 0 /\ in_pipe = cap_in
SelectorBlockedOnStdout == sel_op = "write_out" /\ out_pipe = cap_out

====
